---- MODULE Spec2Model ----
(***************************************************************************)
(* Orchestration layer of the document suite:                              *)
(*   - generate_document_optimized (app_optimized.py): admission by memory *)
(*     health, fan-out of one task per requested format on a thread pool,  *)
(*     fan-in of the results, registration of the generated document;      *)
(*   - OptimizationManager.check_memory_health (optimization_manager.py);  *)
(*   - DocumentPreviewManager (utils/document_preview.py): the registry of *)
(*     generated documents with its access counter, and the retrieval of   *)
(*     a document's files;                                                 *)
(*   - FileManager and FileCleanupScheduler (ai_engine/file_manager.py):   *)
(*     tracked temporary files, their sweep and the background loop;       *)
(*   - the lazily built components of app_optimized.py.                    *)
(***************************************************************************)
EXTENDS Integers, Sequences, FiniteSets, TLC

\* ------------------------------------------------------------------ bounds
MaxFormats == 3          \* longest requested format list
NumRequests == 2         \* invocations of generate_document_optimized
NumCallers == 2          \* threads calling the registry
MaxRegisters == 1        \* register_document calls made by the caller threads together
MaxReads == 3            \* get_document_info and get_all_documents calls made by them together
NumDocIds == 2           \* distinct values of the 8-character document id
NumWorkers == 2          \* request threads calling the FileManager
MaxLoopThreads == 2      \* cleanup loop threads the scheduler may have spawned
MaxClock == 1            \* last reading of datetime.now()

\* ------------------------------------------------------- program constants
max_workers == 3         \* ThreadPoolExecutor(max_workers=3)
WarningPercent == 80     \* stats['ram_percent'] > 80
CriticalPercent == 90    \* stats['ram_percent'] > 90

Reqs == 1..NumRequests
Callers == 1..NumCallers
DocIds == 1..NumDocIds

Now == "isoformat"       \* datetime.now().isoformat(), whatever the clock reads
None == <<>>             \* Python None in the place of a path or an error text
Path(n) == <<"tmp", n>>  \* the n-th name handed out by tempfile.NamedTemporaryFile

\* the tags a request may carry: three with a generator and one without
InputTags == {"pdf", "docx", "md", "txt"}
\* memory readings of a request: one in each tier
RamPercents == {50, 85, 95}

\* format_generators of generate_document_optimized: each tag with the name
\* its generate_*_file function reports
format_generators ==
    [fmt \in {"pdf", "docx", "md", "html", "latex"} |->
        CASE fmt = "pdf" -> "PDF"
          [] fmt = "docx" -> "Word"
          [] fmt = "md" -> "Markdown"
          [] fmt = "html" -> "HTML"
          [] fmt = "latex" -> "LaTeX"]

RECURSIVE SeqsUpTo(_, _)
SeqsUpTo(S, n) ==
    IF n = 0 THEN {<<>>}
    ELSE LET shorter == SeqsUpTo(S, n - 1)
         IN shorter \cup {Append(s, x) : s \in {t \in shorter : Len(t) = n - 1}, x \in S}

FormatLists == SeqsUpTo(InputTags, MaxFormats)

EmptyMap == [x \in {} |-> None]
MapPut(m, k, v) == [x \in (DOMAIN m) \cup {k} |-> IF x = k THEN v ELSE m[x]]

\* ---------------------------------------------------------------- state
VARIABLES
    pc,                 \* per request: position in generate_document_optimized
    request,            \* per request: the arguments it was called with
    include_tables,     \* per request: the local include_tables
    include_charts,     \* per request: the local include_charts
    health,             \* per request: result of check_memory_health
    next_fmt,           \* per request: index of the `for fmt in formats` loop
    format_tasks,       \* per request: the submitted (fmt, task) pairs
    collect_i,          \* per request: index of the `for fmt, task in format_tasks` loop
    outputs,            \* per request: fmt_name -> path
    status_updates,     \* per request: the status lines
    result,             \* per request: the value returned
    saved_files,        \* temp files written by FileHandler.save_file
    renderer_calls,     \* per request: generate_*_file invocations
    completed,          \* per request: task indexes in completion order
    heap,               \* the document dicts, by object identity
    documents_registry, \* DocumentPreviewManager.documents_registry: doc id -> dict object
    registered_by,      \* per dict object: the request whose register call built it
    cpc,                \* per caller: position in the registry call
    clocal,             \* per caller: locals of the registry call
    cret,               \* per caller: value returned by the last call
    nregisters,         \* register_document calls begun by the caller threads
    nreads,             \* get_document_info and get_all_documents calls begun by them
    gets_done,          \* per dict object: get_document_info calls that incremented it and returned
    snapshot,           \* the last health dict handed out by check_memory_health
    clock,              \* datetime.now()
    max_age,            \* FileManager.max_age
    tracked_files,      \* FileManager.tracked_files, in insertion order
    disk,               \* the file ids whose copy exists under temp_base_dir
    lock,               \* FileManager.lock: the threads holding it (none or one)
    fpc,                \* per file thread: position in its FileManager or scheduler call
    flocal,             \* per file thread: locals of that call
    deleted_ids,        \* history: the file ids ever removed from tracked_files
    running,            \* FileCleanupScheduler.running
    thread,             \* FileCleanupScheduler.thread: the loop threads it was bound to
    components,         \* _components: key -> the object stored under it
    component_lock,     \* _component_lock: the threads holding it (none or one)
    built,              \* the objects constructed so far, each by its class
    lpc,                \* per caller: position in its get_* call
    llocal,             \* per caller: the call it is in and the key it loads
    lret                \* per caller: what its last get_* call returned

coordVars == <<pc, request, include_tables, include_charts, health, next_fmt,
               format_tasks, collect_i, outputs, status_updates, result,
               saved_files, renderer_calls, completed, registered_by>>
callerVars == <<cpc, clocal, cret, nregisters, nreads, gets_done>>
registryVars == <<heap, documents_registry>>
monitorVars == <<snapshot>>
fileVars == <<clock, max_age, tracked_files, disk, lock, fpc, flocal, deleted_ids>>
schedulerVars == <<running, thread>>
lazyVars == <<components, component_lock, built, lpc, llocal, lret>>
backgroundVars == <<monitorVars, fileVars, schedulerVars, lazyVars>>
vars == <<coordVars, registryVars, callerVars, backgroundVars>>

NoRequest == [formats |-> <<>>, include_tables |-> FALSE, include_charts |-> FALSE]
NoHealth == [status |-> "UNKNOWN", ram_percent |-> 0]
NoResult == [kind |-> "none"]
NoReturn == [kind |-> "nothing"]
NoLocal == [op |-> "none", doc_id |-> 0, ref |-> 0, count |-> 0]
NoTaskResult == [fmt_name |-> "", path |-> None, error |-> None, exc |-> FALSE]

\* --------------------------------------------------- resource health monitor
\* a health check whose thresholds are reached at 80 and at 90
check_memory_health_inclusive(ram_percent) ==
    LET s1 == IF ram_percent >= WarningPercent THEN "WARNING" ELSE "HEALTHY"
        s2 == IF ram_percent >= CriticalPercent THEN "CRITICAL" ELSE s1
    IN [status |-> s2, ram_percent |-> ram_percent]

\* OptimizationManager.check_memory_health
check_memory_health(ram_percent) ==
    LET s1 == IF ram_percent > WarningPercent THEN "WARNING" ELSE "HEALTHY"
        s2 == IF ram_percent > CriticalPercent THEN "CRITICAL" ELSE s1
    IN [status |-> s2, ram_percent |-> ram_percent]

\* ------------------------------------------------------------------ registry
\* a document dict that is stored before its fields are filled in
new_document_partial(title, file_paths, content_preview, created_at, metadata) ==
    [title |-> title]

\* the dict literal of register_document
new_document(title, file_paths, content_preview, created_at, metadata) ==
    [title |-> title,
     file_paths |-> file_paths,
     content_preview |-> content_preview,
     created_at |-> created_at,
     metadata |-> IF metadata = [none |-> TRUE] THEN EmptyMap ELSE metadata,
     access_count |-> 0]

\* self.documents_registry[doc_id] = {...}: the entry refers to the new dict
store_document(registry, doc_id, ref) == MapPut(registry, doc_id, ref)

\* ------------------------------------------------------ generation coordinator
\* a generate_*_file without its try/except: the exception leaves the task
generate_file_uncaught(fmt, raised, path) ==
    [fmt_name |-> format_generators[fmt], path |-> IF raised THEN None ELSE path,
     error |-> None, exc |-> raised]

\* generate_pdf_file .. generate_latex_file: the renderer and save_file run
\* inside try/except Exception; `raised` says whether either of them raised
generate_file(fmt, raised, path) ==
    IF raised
    THEN [fmt_name |-> format_generators[fmt], path |-> None,
          error |-> <<format_generators[fmt], "generation failed">>, exc |-> FALSE]
    ELSE [fmt_name |-> format_generators[fmt], path |-> path,
          error |-> None, exc |-> FALSE]

\* outputs[fmt_name] = path without the `if path`
collect_outputs_always(outs, res) == MapPut(outs, res.fmt_name, res.path)

\* `if path: outputs[fmt_name] = path`
collect_outputs(outs, res) ==
    IF res.path # None THEN MapPut(outs, res.fmt_name, res.path) ELSE outs

\* a collection that reports the successes only
collect_status_success_only(stats, res) ==
    IF res.path # None
    THEN Append(stats, [ok |-> TRUE, text |-> <<res.fmt_name, "generated successfully">>])
    ELSE stats

\* `status_updates.append(...)` of either branch
collect_status(stats, res) ==
    IF res.path # None
    THEN Append(stats, [ok |-> TRUE, text |-> <<res.fmt_name, "generated successfully">>])
    ELSE Append(stats, [ok |-> FALSE, text |-> res.error])

\* `format_tasks.append((fmt, task))`
append_task(tasks, fmt) ==
    Append(tasks, [fmt |-> fmt, st |-> "queued", raised |-> FALSE, result |-> NoTaskResult])

\* a degrade that leaves the requested features on
degrade_keep(status, flag) == flag

\* the local include_tables / include_charts after the health branch
degrade(status, flag) == IF status = "WARNING" THEN FALSE ELSE flag

\* an admission test that never refuses
refused_never(status) == FALSE

\* `elif health['status'] == 'CRITICAL': return ...`
refused(status) == status = "CRITICAL"

\* the call: arguments bound, nothing executed yet
Call(r) ==
    /\ pc[r] = "idle"
    /\ \E fl \in FormatLists, t \in BOOLEAN, c \in BOOLEAN :
          /\ request' = [request EXCEPT ![r] =
                 [formats |-> fl, include_tables |-> t, include_charts |-> c]]
          /\ include_tables' = [include_tables EXCEPT ![r] = t]
          /\ include_charts' = [include_charts EXCEPT ![r] = c]
    /\ pc' = [pc EXCEPT ![r] = "check"]
    /\ UNCHANGED <<health, next_fmt, format_tasks, collect_i, outputs, status_updates,
                   result, saved_files, renderer_calls, completed, registered_by,
                   registryVars, callerVars, backgroundVars>>

\* lines 276-287: health check, degradation, refusal
Admission(r) ==
    /\ pc[r] = "check"
    /\ \E p \in RamPercents :
          LET h == check_memory_health(p) IN
          /\ health' = [health EXCEPT ![r] = h]
          /\ include_tables' = [include_tables EXCEPT ![r] = degrade(h.status, @)]
          /\ include_charts' = [include_charts EXCEPT ![r] = degrade(h.status, @)]
          /\ IF refused(h.status)
             THEN /\ pc' = [pc EXCEPT ![r] = "returned"]
                  /\ result' = [result EXCEPT ![r] = [kind |-> "critical", outputs |-> EmptyMap]]
             ELSE /\ pc' = [pc EXCEPT ![r] = "assemble"]
                  /\ UNCHANGED result
    /\ UNCHANGED <<request, next_fmt, format_tasks, collect_i, outputs, status_updates,
                   saved_files, renderer_calls, completed, registered_by,
                   registryVars, callerVars, backgroundVars>>

\* line 276 when psutil raises inside get_system_stats: check_memory_health has
\* no handler, `health` is never bound, and the exception reaches the handler
\* of lines 423-425, which returns the error text with empty outputs
MemoryReadFails(r) ==
    /\ pc[r] = "check"
    /\ pc' = [pc EXCEPT ![r] = "returned"]
    /\ result' = [result EXCEPT ![r] =
           [kind |-> "error", cause |-> "memory_read", outputs |-> EmptyMap]]
    /\ UNCHANGED <<request, include_tables, include_charts, health, next_fmt,
                   format_tasks, collect_i, outputs, status_updates, saved_files,
                   renderer_calls, completed, registered_by, registryVars, callerVars,
                   backgroundVars>>

\* lines 289-349: requirement analysis, content, citations; any exception
\* reaches the handler of lines 423-425
Assemble(r) ==
    /\ pc[r] = "assemble"
    /\ \E ok \in BOOLEAN :
          IF ok
          THEN /\ pc' = [pc EXCEPT ![r] = "fanout"]
               /\ next_fmt' = [next_fmt EXCEPT ![r] = 1]
               /\ UNCHANGED result
          ELSE /\ pc' = [pc EXCEPT ![r] = "returned"]
               /\ result' = [result EXCEPT ![r] =
                      [kind |-> "error", cause |-> "content", outputs |-> EmptyMap]]
               /\ UNCHANGED next_fmt
    /\ UNCHANGED <<request, include_tables, include_charts, health, format_tasks,
                   collect_i, outputs, status_updates, saved_files, renderer_calls,
                   completed, registered_by, registryVars, callerVars, backgroundVars>>

\* lines 352-358: one iteration of `for fmt in formats`
SubmitTask(r) ==
    /\ pc[r] = "fanout"
    /\ LET fl == request[r].formats
           i == next_fmt[r] IN
       IF i > Len(fl)
       THEN /\ pc' = [pc EXCEPT ![r] = "collect"]
            /\ collect_i' = [collect_i EXCEPT ![r] = 1]
            /\ UNCHANGED <<next_fmt, format_tasks>>
       ELSE /\ next_fmt' = [next_fmt EXCEPT ![r] = i + 1]
            /\ format_tasks' = [format_tasks EXCEPT ![r] =
                   IF fl[i] \in DOMAIN format_generators THEN append_task(@, fl[i]) ELSE @]
            /\ UNCHANGED <<pc, collect_i>>
    /\ UNCHANGED <<request, include_tables, include_charts, health, outputs,
                   status_updates, result, saved_files, renderer_calls, completed,
                   registered_by, registryVars, callerVars, backgroundVars>>

Running(r) == {i \in 1..Len(format_tasks[r]) : format_tasks[r][i].st = "running"}
Queued(r) == {i \in 1..Len(format_tasks[r]) : format_tasks[r][i].st = "queued"}

\* a worker of the request's ThreadPoolExecutor takes the oldest queued task
StartTask(r) ==
    /\ Queued(r) # {}
    /\ Cardinality(Running(r)) < max_workers
    /\ LET i == CHOOSE j \in Queued(r) : \A k \in Queued(r) : j <= k IN
       format_tasks' = [format_tasks EXCEPT ![r][i].st = "running"]
    /\ renderer_calls' = [renderer_calls EXCEPT ![r] = @ + 1]
    /\ UNCHANGED <<pc, request, include_tables, include_charts, health, next_fmt,
                   collect_i, outputs, status_updates, result, saved_files, completed,
                   registered_by, registryVars, callerVars, backgroundVars>>

\* a running generate_*_file returns its tuple
FinishTask(r, i) ==
    /\ i \in Running(r)
    /\ \E raised \in BOOLEAN :
          LET path == Path(Cardinality(saved_files) + 1)
              res == generate_file(format_tasks[r][i].fmt, raised, path) IN
          /\ format_tasks' = [format_tasks EXCEPT ![r][i] =
                 [@ EXCEPT !.st = "done", !.raised = raised, !.result = res]]
          /\ saved_files' = IF raised THEN saved_files ELSE saved_files \cup {path}
    /\ completed' = [completed EXCEPT ![r] = Append(@, i)]
    /\ UNCHANGED <<pc, request, include_tables, include_charts, health, next_fmt,
                   collect_i, outputs, status_updates, result, renderer_calls,
                   registered_by, registryVars, callerVars, backgroundVars>>

\* a running generate_*_file never returns (its renderer waits forever): the
\* future stays unfinished, and nothing in lines 351-367 cancels it or times out
HangTask(r, i) ==
    /\ i \in Running(r)
    /\ format_tasks' = [format_tasks EXCEPT ![r][i].st = "hung"]
    /\ UNCHANGED <<pc, request, include_tables, include_charts, health, next_fmt,
                   collect_i, outputs, status_updates, result, saved_files,
                   renderer_calls, completed, registered_by, registryVars, callerVars,
                   backgroundVars>>

\* a collection loop over as_completed(...): results taken in completion order
CollectAsCompleted(r) ==
    /\ pc[r] = "collect"
    /\ LET i == collect_i[r] IN
       IF i > Len(format_tasks[r])
       THEN /\ pc' = [pc EXCEPT ![r] = "register"]
            /\ UNCHANGED <<collect_i, outputs, status_updates, result>>
       ELSE /\ i <= Len(completed[r])
            /\ LET res == format_tasks[r][completed[r][i]].result IN
               /\ collect_i' = [collect_i EXCEPT ![r] = i + 1]
               /\ outputs' = [outputs EXCEPT ![r] = collect_outputs(@, res)]
               /\ status_updates' = [status_updates EXCEPT ![r] = collect_status(@, res)]
               /\ UNCHANGED <<pc, result>>
    /\ UNCHANGED <<request, include_tables, include_charts, health, next_fmt,
                   format_tasks, saved_files, renderer_calls, completed,
                   registered_by, registryVars, callerVars, backgroundVars>>

\* a collection loop that takes only the results that are ready and passes
\* over a task that has not finished
CollectWithoutJoin(r) ==
    /\ pc[r] = "collect"
    /\ LET i == collect_i[r] IN
       IF i > Len(format_tasks[r])
       THEN /\ pc' = [pc EXCEPT ![r] = "register"]
            /\ UNCHANGED <<collect_i, outputs, status_updates, result>>
       ELSE /\ collect_i' = [collect_i EXCEPT ![r] = i + 1]
            /\ IF format_tasks[r][i].st = "done"
               THEN LET res == format_tasks[r][i].result IN
                    /\ outputs' = [outputs EXCEPT ![r] = collect_outputs(@, res)]
                    /\ status_updates' = [status_updates EXCEPT ![r] = collect_status(@, res)]
               ELSE UNCHANGED <<outputs, status_updates>>
            /\ UNCHANGED <<pc, result>>
    /\ UNCHANGED <<request, include_tables, include_charts, health, next_fmt,
                   format_tasks, saved_files, renderer_calls, completed,
                   registered_by, registryVars, callerVars, backgroundVars>>

\* lines 361-367: one iteration of `for fmt, task in format_tasks`; task.result()
\* blocks until the task is done and re-raises what the task raised
CollectResult(r) ==
    /\ pc[r] = "collect"
    /\ LET i == collect_i[r] IN
       IF i > Len(format_tasks[r])
       THEN /\ pc' = [pc EXCEPT ![r] = "register"]
            /\ UNCHANGED <<collect_i, outputs, status_updates, result>>
       ELSE /\ format_tasks[r][i].st = "done"
            /\ LET res == format_tasks[r][i].result IN
               IF res.exc
               THEN /\ pc' = [pc EXCEPT ![r] = "returned"]
                    /\ result' = [result EXCEPT ![r] =
                           [kind |-> "error", cause |-> "renderer", outputs |-> EmptyMap]]
                    /\ UNCHANGED <<collect_i, outputs, status_updates>>
               ELSE /\ collect_i' = [collect_i EXCEPT ![r] = i + 1]
                    /\ outputs' = [outputs EXCEPT ![r] = collect_outputs(@, res)]
                    /\ status_updates' = [status_updates EXCEPT ![r] = collect_status(@, res)]
                    /\ UNCHANGED <<pc, result>>
    /\ UNCHANGED <<request, include_tables, include_charts, health, next_fmt,
                   format_tasks, saved_files, renderer_calls, completed,
                   registered_by, registryVars, callerVars, backgroundVars>>

\* lines 369-421: register_document with the collected outputs, then return
Register(r) ==
    /\ pc[r] = "register"
    /\ \E doc_id \in DocIds :
          /\ heap' = Append(heap, new_document("Report", outputs[r], "content", Now,
                                 [format_count |-> Cardinality(DOMAIN outputs[r])]))
          /\ documents_registry' = store_document(documents_registry, doc_id, Len(heap) + 1)
          /\ registered_by' = MapPut(registered_by, Len(heap) + 1, r)
          /\ gets_done' = Append(gets_done, 0)
          /\ result' = [result EXCEPT ![r] =
                 [kind |-> "complete", doc_id |-> doc_id, outputs |-> outputs[r],
                  status_updates |-> status_updates[r]]]
    /\ pc' = [pc EXCEPT ![r] = "returned"]
    /\ UNCHANGED <<request, include_tables, include_charts, health, next_fmt,
                   format_tasks, collect_i, outputs, status_updates, saved_files,
                   renderer_calls, completed, cpc, clocal, cret, nregisters, nreads,
                   backgroundVars>>


\* ------------------------------------------------------- registry callers
\* what threads other than the coordinator hand to register_document: one
\* rendered format, and metadata left at its default None
RegisterInputs ==
    { [file_paths |-> [n \in {"PDF"} |-> Path(1)], metadata |-> [none |-> TRUE]] }

\* register_document up to the evaluation of the dict literal: the id is drawn
\* and the new dict exists, not yet in the registry
RegBuild(c) ==
    /\ cpc[c] = "idle"
    /\ nregisters < MaxRegisters
    /\ nregisters' = nregisters + 1
    /\ \E doc_id \in DocIds, in \in RegisterInputs :
          /\ heap' = Append(heap, new_document("Report", in.file_paths, "content", Now, in.metadata))
          /\ clocal' = [clocal EXCEPT ![c] =
                 [op |-> "register", doc_id |-> doc_id, ref |-> Len(heap) + 1, count |-> 0]]
    /\ gets_done' = Append(gets_done, 0)
    /\ cpc' = [cpc EXCEPT ![c] = "reg_store"]
    /\ UNCHANGED <<backgroundVars, coordVars, documents_registry, cret, nreads>>

\* the subscript store of register_document, and its return
RegStore(c) ==
    /\ cpc[c] = "reg_store"
    /\ documents_registry' = store_document(documents_registry, clocal[c].doc_id, clocal[c].ref)
    /\ cret' = [cret EXCEPT ![c] = [kind |-> "id", doc_id |-> clocal[c].doc_id]]
    /\ clocal' = [clocal EXCEPT ![c] = NoLocal]
    /\ cpc' = [cpc EXCEPT ![c] = "returned"]
    /\ UNCHANGED <<backgroundVars, coordVars, heap, nregisters, nreads, gets_done>>

\* get_document_info is called with some id
GetCall(c) ==
    /\ cpc[c] = "idle"
    /\ nreads < MaxReads
    /\ nreads' = nreads + 1
    /\ \E doc_id \in DocIds :
          clocal' = [clocal EXCEPT ![c] = [op |-> "get", doc_id |-> doc_id, ref |-> 0, count |-> 0]]
    /\ cpc' = [cpc EXCEPT ![c] = "get_check"]
    /\ UNCHANGED <<backgroundVars, coordVars, registryVars, cret, nregisters, gets_done>>

\* a lookup without the membership test: the subscript raises KeyError
membership_unchecked(registry, doc_id) ==
    IF doc_id \in DOMAIN registry THEN "found" ELSE "raise"

\* `if doc_id in self.documents_registry`
membership(registry, doc_id) ==
    IF doc_id \in DOMAIN registry THEN "found" ELSE "return_none"

GetCheck(c) ==
    /\ cpc[c] = "get_check"
    /\ LET m == membership(documents_registry, clocal[c].doc_id) IN
       CASE m = "found" ->
               /\ cpc' = [cpc EXCEPT ![c] = "get_ref"]
               /\ UNCHANGED <<cret, clocal>>
         [] m = "return_none" ->
               /\ cpc' = [cpc EXCEPT ![c] = "returned"]
               /\ cret' = [cret EXCEPT ![c] = [kind |-> "none", doc_id |-> clocal[c].doc_id]]
               /\ clocal' = [clocal EXCEPT ![c] = NoLocal]
         [] m = "raise" ->
               /\ cpc' = [cpc EXCEPT ![c] = "returned"]
               /\ cret' = [cret EXCEPT ![c] = [kind |-> "exception", doc_id |-> clocal[c].doc_id]]
               /\ clocal' = [clocal EXCEPT ![c] = NoLocal]
    /\ UNCHANGED <<backgroundVars, coordVars, registryVars, nregisters, nreads, gets_done>>

\* self.documents_registry[doc_id]["access_count"] += 1, first subscript:
\* the dict the increment will read and write
GetRef(c) ==
    /\ cpc[c] = "get_ref"
    /\ clocal' = [clocal EXCEPT ![c].ref = documents_registry[clocal[c].doc_id]]
    /\ cpc' = [cpc EXCEPT ![c] = "get_load"]
    /\ UNCHANGED <<backgroundVars, coordVars, registryVars, cret, nregisters, nreads, gets_done>>

\* ... the read of access_count
GetLoad(c) ==
    /\ cpc[c] = "get_load"
    /\ clocal' = [clocal EXCEPT ![c].count = heap[clocal[c].ref].access_count]
    /\ cpc' = [cpc EXCEPT ![c] = "get_store"]
    /\ UNCHANGED <<backgroundVars, coordVars, registryVars, cret, nregisters, nreads, gets_done>>

\* the value the increment writes back
incremented(count) == count + 1

\* ... the write of access_count
GetStore(c) ==
    /\ cpc[c] = "get_store"
    /\ heap' = [heap EXCEPT ![clocal[c].ref].access_count = incremented(clocal[c].count)]
    /\ cpc' = [cpc EXCEPT ![c] = "get_return"]
    /\ UNCHANGED <<backgroundVars, coordVars, documents_registry, clocal, cret, nregisters, nreads, gets_done>>

\* `return self.documents_registry[doc_id]`: the dict now under that id
GetReturn(c) ==
    /\ cpc[c] = "get_return"
    /\ cret' = [cret EXCEPT ![c] = [kind |-> "doc", doc_id |-> clocal[c].doc_id,
                                    ref |-> documents_registry[clocal[c].doc_id]]]
    /\ gets_done' = [gets_done EXCEPT ![clocal[c].ref] = @ + 1]
    /\ clocal' = [clocal EXCEPT ![c] = NoLocal]
    /\ cpc' = [cpc EXCEPT ![c] = "returned"]
    /\ UNCHANGED <<backgroundVars, coordVars, registryVars, nregisters, nreads>>

\* get_all_documents: a copy of the registry dict, its values the same dict objects
GetAll(c) ==
    /\ cpc[c] = "idle"
    /\ nreads < MaxReads
    /\ nreads' = nreads + 1
    /\ cret' = [cret EXCEPT ![c] = [kind |-> "all", docs |-> documents_registry]]
    /\ cpc' = [cpc EXCEPT ![c] = "returned"]
    /\ UNCHANGED <<backgroundVars, coordVars, registryVars, clocal, nregisters, gets_done>>

\* the caller is done with the value it was given
Continue(c) ==
    /\ cpc[c] = "returned"
    /\ cpc' = [cpc EXCEPT ![c] = "idle"]
    /\ cret' = [cret EXCEPT ![c] = NoReturn]
    /\ UNCHANGED <<backgroundVars, coordVars, registryVars, clocal, nregisters, nreads, gets_done>>

\* --------------------------------------------------------------- retrieval
\* str.upper() on the format names a caller can pass
upper(name) ==
    CASE name = "PDF" -> "PDF"
      [] name = "Word" -> "WORD"
      [] name = "Markdown" -> "MARKDOWN"
      [] name = "HTML" -> "HTML"
      [] name = "LaTeX" -> "LATEX"

\* the format_type arguments: the names shown for a document, which are the
\* keys of its file_paths
FormatTypes == {format_generators[fmt] : fmt \in DOMAIN format_generators}

\* the doc ids that returned requests reported to their users
ReportedIds == {result[r].doc_id : r \in {q \in Reqs : result[q].kind = "complete"}}

\* the caller that fetches documents
Reader == {c \in Callers : \A d \in Callers : c <= d}

\* `doc_info["file_paths"].get(format_type.upper())` of get_download_link
get_download_link(file_paths, format_type) ==
    IF upper(format_type) \in DOMAIN file_paths THEN file_paths[upper(format_type)] ELSE None

\* `if file_path and os.path.exists(file_path)` and the read of get_file_bytes
get_file_bytes(file_path, files) ==
    IF file_path # None /\ file_path \in files THEN <<"bytes", file_path>> ELSE None

\* get_file_bytes(doc_id, format_type): get_download_link, with the
\* get_document_info call it makes (which counts an access), then the read
GetFileBytes(c) ==
    /\ cpc[c] = "idle"
    /\ nreads < MaxReads
    /\ nreads' = nreads + 1
    /\ \E doc_id \in ReportedIds, format_type \in FormatTypes :
          IF membership(documents_registry, doc_id) = "found"
          THEN LET ref == documents_registry[doc_id] IN
               /\ heap' = [heap EXCEPT ![ref].access_count = incremented(@)]
               /\ gets_done' = [gets_done EXCEPT ![ref] = @ + 1]
               /\ cret' = [cret EXCEPT ![c] =
                      [kind |-> "bytes", doc_id |-> doc_id, format_type |-> format_type,
                       bytes |-> get_file_bytes(
                           get_download_link(heap[ref].file_paths, format_type),
                           saved_files)]]
          ELSE /\ cret' = [cret EXCEPT ![c] =
                      [kind |-> "bytes", doc_id |-> doc_id, format_type |-> format_type,
                       bytes |-> None]]
               /\ UNCHANGED <<heap, gets_done>>
    /\ cpc' = [cpc EXCEPT ![c] = "returned"]
    /\ UNCHANGED <<backgroundVars, coordVars, documents_registry, clocal, nregisters>>

\* ------------------------------------------------------------ file manager
Workers == {"worker"} \X (1..NumWorkers)
LoopThreads == {"loop"} \X (1..MaxLoopThreads)
FileThreads == Workers \cup LoopThreads
\* the source paths handed to upload_file
Sources == {"notes.pdf"}
\* max_age_minutes given to the constructor: a TTL of zero and a TTL of an hour
MaxAges == {0, 1}
\* delete_after given to mark_processed: the default 0 and a later deadline
DeleteAfters == {0, 1}

NoFileLocal == [op |-> "none"]

\* _generate_file_id: file_{timestamp to the second}_{hash of the source path}
FileId(source, second) == <<"file", second, source>>

\* `file_id in self.tracked_files`
IsTracked(tf, id) == \E i \in 1..Len(tf) : tf[i].file_id = id
IndexOf(tf, id) == CHOOSE i \in 1..Len(tf) : tf[i].file_id = id
\* `self.tracked_files[file_id]`
file_info(tf, id) == tf[IndexOf(tf, id)]
\* `self.tracked_files[file_id] = info`: a key already present keeps its place
put_file(tf, id, info) ==
    IF IsTracked(tf, id) THEN [tf EXCEPT ![IndexOf(tf, id)] = info] ELSE Append(tf, info)
\* `del self.tracked_files[file_id]`
del_file(tf, id) == SelectSeq(tf, LAMBDA e : e.file_id # id)
\* the ids a step took out of the table
removed_ids(tf, tf2) ==
    {tf[i].file_id : i \in 1..Len(tf)} \ {tf2[i].file_id : i \in 1..Len(tf2)}
\* `info[key] = value` on a tracked dict
SetField(info, key, value) ==
    [k \in (DOMAIN info) \cup {key} |-> IF k = key THEN value ELSE info[k]]

\* an age test that is met as soon as the age reaches max_age
expired_by_age_inclusive(info, now, age) == (now - info.upload_time) >= age

\* `upload_time and (now - upload_time) > self.max_age`
expired_by_age(info, now, age) == (now - info.upload_time) > age

\* `delete_at and now >= delete_at`
expired_by_deadline(info, now) ==
    "delete_at" \in DOMAIN info /\ now >= info.delete_at

\* the first loop of cleanup_expired_files: an id is appended once for each
\* test it meets
RECURSIVE expired_files(_, _, _)
expired_files(tf, now, age) ==
    IF tf = <<>> THEN <<>>
    ELSE LET info == Head(tf) IN
         (IF expired_by_age(info, now, age) THEN <<info.file_id>> ELSE <<>>)
         \o (IF expired_by_deadline(info, now) THEN <<info.file_id>> ELSE <<>>)
         \o expired_files(Tail(tf), now, age)

\* a deletion that reports success for an id that is not in the table
delete_file_internal_lenient(tf, dsk, id, raises) ==
    IF ~IsTracked(tf, id) THEN [tracked |-> tf, disk |-> dsk, ok |-> TRUE]
    ELSE IF id \in dsk /\ raises THEN [tracked |-> tf, disk |-> dsk, ok |-> FALSE]
    ELSE [tracked |-> del_file(tf, id), disk |-> dsk \ {id}, ok |-> TRUE]

\* the bodies of delete_file and _delete_file_internal: os.remove is called
\* when the copy exists, and when it raises the entry is left in place and
\* the handler returns False
delete_file_internal(tf, dsk, id, raises) ==
    IF ~IsTracked(tf, id) THEN [tracked |-> tf, disk |-> dsk, ok |-> FALSE]
    ELSE IF id \in dsk /\ raises THEN [tracked |-> tf, disk |-> dsk, ok |-> FALSE]
    ELSE [tracked |-> del_file(tf, id), disk |-> dsk \ {id}, ok |-> TRUE]

\* where a thread is when it may begin a FileManager call
CallPoint(t) == IF t \in LoopThreads THEN "loop_call" ELSE "idle"
\* where it is when the call has returned
ReturnPoint(t) == IF t \in LoopThreads THEN "sleep" ELSE "idle"

nonFileVars == <<coordVars, registryVars, callerVars, monitorVars, lazyVars>>

\* the ids upload_file can have returned by now, which callers pass back
Issued == {FileId(s, c) : s \in Sources, c \in 0..clock}

\* upload_file up to shutil.copy2: the id is computed and the copy written,
\* before the lock is taken; a failing copy returns (False, message)
UploadCopy(t) ==
    /\ t \in Workers
    /\ fpc[t] = "idle"
    /\ \E source \in Sources, copied \in BOOLEAN :
          LET file_id == FileId(source, clock) IN
          IF copied
          THEN /\ disk' = disk \cup {file_id}
               /\ flocal' = [flocal EXCEPT ![t] = [op |-> "upload", file_id |-> file_id]]
               /\ fpc' = [fpc EXCEPT ![t] = "up_lock"]
          ELSE UNCHANGED <<disk, flocal, fpc>>
    /\ UNCHANGED <<deleted_ids, clock, max_age, tracked_files, lock, schedulerVars, nonFileVars>>

\* `with self.lock:` of upload_file with the assignment of the tracking dict,
\* the release of the lock and the return
UploadStore(t) ==
    /\ fpc[t] = "up_lock"
    /\ lock = {}
    /\ LET id == flocal[t].file_id IN
       tracked_files' = put_file(tracked_files, id,
           [file_id |-> id, upload_time |-> clock, status |-> "uploaded"])
    /\ flocal' = [flocal EXCEPT ![t] = NoFileLocal]
    /\ fpc' = [fpc EXCEPT ![t] = "idle"]
    /\ UNCHANGED <<deleted_ids, clock, max_age, disk, lock, schedulerVars, nonFileVars>>

\* get_file_path(file_id) entering `with self.lock:` and looking the id up
GetPathLock(t) ==
    /\ t \in Workers
    /\ fpc[t] = "idle"
    /\ lock = {}
    /\ lock' = {t}
    /\ \E id \in Issued :
          flocal' = [flocal EXCEPT ![t] =
              [op |-> "get_file_path", file_id |-> id,
               path |-> IsTracked(tracked_files, id) /\ id \in disk]]
    /\ fpc' = [fpc EXCEPT ![t] = "gp_release"]
    /\ UNCHANGED <<deleted_ids, clock, max_age, tracked_files, disk, schedulerVars, nonFileVars>>

\* the end of get_file_path's `with` block and its return of the path or None
GetPathReturn(t) ==
    /\ fpc[t] = "gp_release"
    /\ lock' = {}
    /\ flocal' = [flocal EXCEPT ![t] = NoFileLocal]
    /\ fpc' = [fpc EXCEPT ![t] = "idle"]
    /\ UNCHANGED <<deleted_ids, clock, max_age, tracked_files, disk, schedulerVars, nonFileVars>>

\* the `with self.lock:` block of mark_processed up to its return statement:
\* the table it leaves and what it returns, "delete_file" standing for
\* `return self.delete_file(file_id)` (processed_time, which nothing reads, is
\* left out of the tracking dict)
mark_processed(tf, id, delete_after, now) ==
    IF ~IsTracked(tf, id) THEN [tracked |-> tf, returns |-> "False"]
    ELSE LET processed == SetField(file_info(tf, id), "status", "processed") IN
         IF delete_after <= 0
         THEN [tracked |-> put_file(tf, id, processed), returns |-> "delete_file"]
         ELSE [tracked |-> put_file(tf, id, SetField(processed, "delete_at", now + delete_after)),
               returns |-> "True"]

\* mark_processed(file_id, delete_after), entered when the lock is free. With
\* delete_after <= 0 it calls self.delete_file while it holds the lock:
\* delete_file waits for that same threading.Lock, which is not reentrant, so
\* the thread stays at "mp_delete" with the lock held
MarkProcessed(t) ==
    /\ t \in Workers
    /\ fpc[t] = "idle"
    /\ lock = {}
    /\ \E id \in Issued, delete_after \in DeleteAfters :
          LET m == mark_processed(tracked_files, id, delete_after, clock) IN
          /\ tracked_files' = m.tracked
          /\ IF m.returns = "delete_file"
             THEN /\ lock' = {t}
                  /\ flocal' = [flocal EXCEPT ![t] =
                         [op |-> "mark_processed", file_id |-> id]]
                  /\ fpc' = [fpc EXCEPT ![t] = "mp_delete"]
             ELSE UNCHANGED <<lock, flocal, fpc>>
    /\ UNCHANGED <<deleted_ids, clock, max_age, disk, schedulerVars, nonFileVars>>

\* delete_file(file_id), called by a request thread or from mark_processed:
\* the `with self.lock:` block, entered when the lock is free
DeleteBody(t) ==
    /\ lock = {}
    /\ \E raises \in BOOLEAN, id \in Issued :
          /\ \/ t \in Workers /\ fpc[t] = "idle"
             \/ fpc[t] = "mp_delete" /\ id = flocal[t].file_id
          /\ LET d == delete_file_internal(tracked_files, disk, id, raises) IN
             /\ tracked_files' = d.tracked
             /\ disk' = d.disk
             /\ deleted_ids' = deleted_ids \cup removed_ids(tracked_files, d.tracked)
             /\ flocal' = [flocal EXCEPT ![t] =
                    [op |-> "delete_file", file_id |-> id, ok |-> d.ok]]
    /\ lock' = {t}
    /\ fpc' = [fpc EXCEPT ![t] = "del_release"]
    /\ UNCHANGED <<clock, max_age, schedulerVars, nonFileVars>>

\* the end of delete_file's `with` block and its return
DeleteRelease(t) ==
    /\ fpc[t] = "del_release"
    /\ lock' = {}
    /\ flocal' = [flocal EXCEPT ![t] = NoFileLocal]
    /\ fpc' = [fpc EXCEPT ![t] = "idle"]
    /\ UNCHANGED <<deleted_ids, clock, max_age, tracked_files, disk, schedulerVars, nonFileVars>>

\* cleanup_expired_files up to `now = datetime.now()`, read before the lock
SweepNow(t) ==
    /\ fpc[t] = CallPoint(t)
    /\ flocal' = [flocal EXCEPT ![t] = [op |-> "cleanup_expired_files", now |-> clock]]
    /\ fpc' = [fpc EXCEPT ![t] = "sw_lock"]
    /\ UNCHANGED <<deleted_ids, clock, max_age, tracked_files, disk, lock, schedulerVars, nonFileVars>>

\* `with self.lock:` and the loop that fills expired_files
SweepCollect(t) ==
    /\ fpc[t] = "sw_lock"
    /\ lock = {}
    /\ lock' = {t}
    /\ flocal' = [flocal EXCEPT ![t] =
           [op |-> "cleanup_expired_files", now |-> @.now,
            expired_files |-> expired_files(tracked_files, @.now, max_age),
            i |-> 1, cleaned_count |-> 0]]
    /\ fpc' = [fpc EXCEPT ![t] = "sw_delete"]
    /\ UNCHANGED <<deleted_ids, clock, max_age, tracked_files, disk, schedulerVars, nonFileVars>>

\* one iteration of `for file_id in expired_files`
SweepDelete(t) ==
    /\ fpc[t] = "sw_delete"
    /\ flocal[t].i <= Len(flocal[t].expired_files)
    /\ \E raises \in BOOLEAN :
          LET d == delete_file_internal(tracked_files, disk,
                                        flocal[t].expired_files[flocal[t].i], raises) IN
          /\ tracked_files' = d.tracked
          /\ disk' = d.disk
          /\ deleted_ids' = deleted_ids \cup removed_ids(tracked_files, d.tracked)
          /\ flocal' = [flocal EXCEPT ![t].i = @ + 1,
                                      ![t].cleaned_count = IF d.ok THEN @ + 1 ELSE @]
    /\ UNCHANGED <<clock, max_age, lock, fpc, schedulerVars, nonFileVars>>

\* the end of the `with` block and `return cleaned_count`
SweepReturn(t) ==
    /\ fpc[t] = "sw_delete"
    /\ flocal[t].i > Len(flocal[t].expired_files)
    /\ lock' = {}
    /\ flocal' = [flocal EXCEPT ![t] = NoFileLocal]
    /\ fpc' = [fpc EXCEPT ![t] = ReturnPoint(t)]
    /\ UNCHANGED <<deleted_ids, clock, max_age, tracked_files, disk, schedulerVars, nonFileVars>>

\* cleanup_all entering `with self.lock:` and taking the list of the keys
CleanupAllLock(t) ==
    /\ t \in Workers
    /\ fpc[t] = "idle"
    /\ lock = {}
    /\ lock' = {t}
    /\ flocal' = [flocal EXCEPT ![t] =
           [op |-> "cleanup_all",
            file_ids |-> [i \in 1..Len(tracked_files) |-> tracked_files[i].file_id],
            i |-> 1, cleaned_count |-> 0]]
    /\ fpc' = [fpc EXCEPT ![t] = "ca_delete"]
    /\ UNCHANGED <<deleted_ids, clock, max_age, tracked_files, disk, schedulerVars, nonFileVars>>

\* one iteration of `for file_id in file_ids`
CleanupAllDelete(t) ==
    /\ fpc[t] = "ca_delete"
    /\ flocal[t].i <= Len(flocal[t].file_ids)
    /\ \E raises \in BOOLEAN :
          LET d == delete_file_internal(tracked_files, disk,
                                        flocal[t].file_ids[flocal[t].i], raises) IN
          /\ tracked_files' = d.tracked
          /\ disk' = d.disk
          /\ deleted_ids' = deleted_ids \cup removed_ids(tracked_files, d.tracked)
          /\ flocal' = [flocal EXCEPT ![t].i = @ + 1,
                                      ![t].cleaned_count = IF d.ok THEN @ + 1 ELSE @]
    /\ UNCHANGED <<clock, max_age, lock, fpc, schedulerVars, nonFileVars>>

\* the end of cleanup_all's `with` block and `return cleaned_count`
CleanupAllReturn(t) ==
    /\ fpc[t] = "ca_delete"
    /\ flocal[t].i > Len(flocal[t].file_ids)
    /\ lock' = {}
    /\ flocal' = [flocal EXCEPT ![t] = NoFileLocal]
    /\ fpc' = [fpc EXCEPT ![t] = "idle"]
    /\ UNCHANGED <<deleted_ids, clock, max_age, tracked_files, disk, schedulerVars, nonFileVars>>

\* time passes
Tick ==
    /\ clock < MaxClock
    /\ clock' = clock + 1
    /\ UNCHANGED <<deleted_ids, max_age, tracked_files, disk, lock, fpc, flocal, schedulerVars,
                   nonFileVars>>

\* ---------------------------------------------------------- cleanup scheduler
Unborn == {l \in LoopThreads : fpc[l] = "unborn"}

\* FileCleanupScheduler.start: `if not self.running`
StartTest(t) ==
    /\ t \in Workers
    /\ fpc[t] = "idle"
    /\ Unborn # {}
    /\ fpc' = [fpc EXCEPT ![t] = IF running THEN "idle" ELSE "st_spawn"]
    /\ UNCHANGED <<deleted_ids, clock, max_age, tracked_files, disk, lock, flocal, schedulerVars, nonFileVars>>

\* the body of the `if`: running set, a new daemon thread bound to
\* self.thread and started on _cleanup_loop
StartSpawn(t) ==
    /\ fpc[t] = "st_spawn"
    /\ Unborn # {}
    /\ LET l == CHOOSE u \in Unborn : \A v \in Unborn : u[2] <= v[2] IN
       /\ running' = TRUE
       /\ thread' = <<l>>
       /\ fpc' = [fpc EXCEPT ![t] = "idle", ![l] = "loop_test"]
    /\ UNCHANGED <<deleted_ids, clock, max_age, tracked_files, disk, lock, flocal, nonFileVars>>

\* FileCleanupScheduler.stop: running cleared, then join(timeout=5), which
\* returns when the thread has ended or when five seconds have passed
SchedulerStop(t) ==
    /\ t \in Workers
    /\ fpc[t] = "idle"
    /\ running' = FALSE
    /\ fpc' = [fpc EXCEPT ![t] = "idle"]
    /\ UNCHANGED <<deleted_ids, clock, max_age, tracked_files, disk, lock, flocal, thread, nonFileVars>>

\* `while self.running:` of _cleanup_loop
LoopTest(l) ==
    /\ l \in LoopThreads
    /\ fpc[l] = "loop_test"
    /\ fpc' = [fpc EXCEPT ![l] = IF running THEN "loop_call" ELSE "exited"]
    /\ UNCHANGED <<deleted_ids, clock, max_age, tracked_files, disk, lock, flocal, schedulerVars,
                   nonFileVars>>

\* time.sleep(self.cleanup_interval) returns
LoopWake(l) ==
    /\ l \in LoopThreads
    /\ fpc[l] = "sleep"
    /\ fpc' = [fpc EXCEPT ![l] = "loop_test"]
    /\ UNCHANGED <<deleted_ids, clock, max_age, tracked_files, disk, lock, flocal, schedulerVars,
                   nonFileVars>>

\* ------------------------------------------------------------ lazy components
\* the getters of app_optimized.py, each with the key it loads and the keys
\* its first call stores, in the order of the assignments
Getters ==
    [get_parser |-> [key |-> "parser", stores |-> <<"parser">>],
     get_preview_manager |->
         [key |-> "preview_manager", stores |-> <<"preview_manager", "document_accessor">>],
     get_document_accessor |->
         [key |-> "preview_manager", stores |-> <<"preview_manager", "document_accessor">>]]
\* the class constructed for each key
ComponentClass ==
    [parser |-> "DocumentParser", preview_manager |-> "DocumentPreviewManager",
     document_accessor |-> "DocumentAccessor"]

NoLazyLocal == [op |-> "none"]
NoLazyReturn == [kind |-> "nothing"]

lazyOthers == <<coordVars, registryVars, callerVars, monitorVars, fileVars, schedulerVars>>

\* nothing loaded yet
InitLazy ==
    /\ components = EmptyMap
    /\ component_lock = {}
    /\ built = <<>>
    /\ lpc = [c \in Callers |-> "idle"]
    /\ llocal = [c \in Callers |-> NoLazyLocal]
    /\ lret = [c \in Callers |-> NoLazyReturn]

\* a thread calls one of the getters; get_document_accessor begins with a
\* call of get_preview_manager
LazyCall(c) ==
    /\ lpc[c] = "idle"
    /\ \E op \in DOMAIN Getters :
          llocal' = [llocal EXCEPT ![c] = [op |-> op, key |-> Getters[op].key, n |-> 1]]
    /\ lret' = [lret EXCEPT ![c] = NoLazyReturn]
    /\ lpc' = [lpc EXCEPT ![c] = "check"]
    /\ UNCHANGED <<components, component_lock, built, lazyOthers>>

\* `if key not in _components:` outside the lock
LazyCheck(c) ==
    /\ lpc[c] = "check"
    /\ lpc' = [lpc EXCEPT ![c] =
           IF llocal[c].key \notin DOMAIN components THEN "lock" ELSE "return"]
    /\ UNCHANGED <<components, component_lock, built, llocal, lret, lazyOthers>>

\* `with _component_lock:` and the second `if key not in _components:`
LazyLock(c) ==
    /\ lpc[c] = "lock"
    /\ component_lock = {}
    /\ component_lock' = {c}
    /\ lpc' = [lpc EXCEPT ![c] =
           IF llocal[c].key \notin DOMAIN components THEN "store" ELSE "release"]
    /\ UNCHANGED <<components, built, llocal, lret, lazyOthers>>

\* one assignment `_components[k] = ...` of the getter's body, with the
\* construction of the object it stores
LazyStore(c) ==
    /\ lpc[c] = "store"
    /\ LET stores == Getters[llocal[c].op].stores
           k == stores[llocal[c].n] IN
       /\ built' = Append(built, ComponentClass[k])
       /\ components' = MapPut(components, k, Len(built) + 1)
       /\ IF llocal[c].n < Len(stores)
          THEN /\ llocal' = [llocal EXCEPT ![c].n = @ + 1]
               /\ UNCHANGED lpc
          ELSE /\ lpc' = [lpc EXCEPT ![c] = "release"]
               /\ UNCHANGED llocal
    /\ UNCHANGED <<component_lock, lret, lazyOthers>>

\* the end of the `with` block
LazyRelease(c) ==
    /\ lpc[c] = "release"
    /\ component_lock' = {}
    /\ lpc' = [lpc EXCEPT ![c] = "return"]
    /\ UNCHANGED <<components, built, llocal, lret, lazyOthers>>

\* `return _components[key]`; in get_document_accessor the value is dropped
\* and `return _components['document_accessor']` comes next
LazyReturn(c) ==
    /\ lpc[c] = "return"
    /\ IF llocal[c].op = "get_document_accessor"
       THEN /\ lpc' = [lpc EXCEPT ![c] = "accessor"]
            /\ UNCHANGED lret
       ELSE /\ lpc' = [lpc EXCEPT ![c] = "returned"]
            /\ lret' = [lret EXCEPT ![c] =
                   [kind |-> "object", key |-> llocal[c].key, obj |-> components[llocal[c].key]]]
    /\ UNCHANGED <<components, component_lock, built, llocal, lazyOthers>>

\* `return _components['document_accessor']`: a KeyError when the key is absent
LazyAccessor(c) ==
    /\ lpc[c] = "accessor"
    /\ lret' = [lret EXCEPT ![c] =
           IF "document_accessor" \in DOMAIN components
           THEN [kind |-> "object", key |-> "document_accessor",
                 obj |-> components["document_accessor"]]
           ELSE [kind |-> "KeyError", key |-> "document_accessor", obj |-> 0]]
    /\ lpc' = [lpc EXCEPT ![c] = "returned"]
    /\ UNCHANGED <<components, component_lock, built, llocal, lazyOthers>>

\* the caller goes on with what it was given
LazyContinue(c) ==
    /\ lpc[c] = "returned"
    /\ lpc' = [lpc EXCEPT ![c] = "idle"]
    /\ llocal' = [llocal EXCEPT ![c] = NoLazyLocal]
    /\ UNCHANGED <<components, component_lock, built, lret, lazyOthers>>

InitCore ==
    /\ pc = [r \in Reqs |-> "idle"]
    /\ request = [r \in Reqs |-> NoRequest]
    /\ include_tables = [r \in Reqs |-> FALSE]
    /\ include_charts = [r \in Reqs |-> FALSE]
    /\ health = [r \in Reqs |-> NoHealth]
    /\ next_fmt = [r \in Reqs |-> 1]
    /\ format_tasks = [r \in Reqs |-> <<>>]
    /\ collect_i = [r \in Reqs |-> 1]
    /\ outputs = [r \in Reqs |-> EmptyMap]
    /\ status_updates = [r \in Reqs |-> <<>>]
    /\ result = [r \in Reqs |-> NoResult]
    /\ saved_files = {}
    /\ renderer_calls = [r \in Reqs |-> 0]
    /\ completed = [r \in Reqs |-> <<>>]
    /\ heap = <<>>
    /\ documents_registry = EmptyMap
    /\ registered_by = EmptyMap
    /\ cpc = [c \in Callers |-> "idle"]
    /\ clocal = [c \in Callers |-> NoLocal]
    /\ cret = [c \in Callers |-> NoReturn]
    /\ nregisters = 0
    /\ nreads = 0
    /\ gets_done = <<>>
    /\ snapshot = NoHealth
    /\ InitLazy

\* FileManager(max_age_minutes=m) and FileCleanupScheduler(file_manager) just
\* constructed: nothing tracked, the lock free, no loop thread started
InitFileManager(m) ==
    /\ clock = 0
    /\ max_age = m
    /\ tracked_files = <<>>
    /\ disk = {}
    /\ deleted_ids = {}
    /\ lock = {}
    /\ fpc = [t \in FileThreads |-> IF t \in LoopThreads THEN "unborn" ELSE "idle"]
    /\ flocal = [t \in FileThreads |-> NoFileLocal]
    /\ running = FALSE
    /\ thread = <<>>

Init == InitCore /\ InitFileManager(1)

\* the first invocation of generate_document_optimized, alone
First == {r \in Reqs : \A q \in Reqs : r <= q}

Next ==
    \E r \in First :
        \/ Call(r)
        \/ Admission(r)
        \/ Assemble(r)
        \/ SubmitTask(r)
        \/ StartTask(r)
        \/ \E i \in 1..MaxFormats : FinishTask(r, i)
        \/ CollectResult(r)
        \/ Register(r)

Spec == Init /\ [][Next]_vars

\* threads using the registry concurrently
NextRegistry ==
    \E c \in Callers :
        \/ RegBuild(c)
        \/ RegStore(c)
        \/ GetCall(c)
        \/ GetCheck(c)
        \/ GetRef(c)
        \/ GetLoad(c)
        \/ GetStore(c)
        \/ GetReturn(c)
        \/ GetAll(c)
        \/ Continue(c)

SpecRegistry == Init /\ [][NextRegistry]_vars

\* one invocation whose collaborators may fail: psutil may raise and a
\* renderer may never return
NextFaults ==
    \E r \in First :
        \/ Call(r)
        \/ Admission(r)
        \/ MemoryReadFails(r)
        \/ Assemble(r)
        \/ SubmitTask(r)
        \/ StartTask(r)
        \/ \E i \in 1..MaxFormats : FinishTask(r, i)
        \/ \E i \in 1..MaxFormats : HangTask(r, i)
        \/ CollectResult(r)
        \/ Register(r)

SpecFaults == Init /\ [][NextFaults]_vars

\* ------------------------------------------------------------ health queries
\* the used-memory percentages a query may read
Percents == 0..100

\* get_system_health(): one call of check_memory_health, with the reading p
Probe ==
    /\ \E p \in Percents : snapshot' = check_memory_health(p)
    /\ UNCHANGED <<coordVars, registryVars, callerVars, fileVars, schedulerVars, lazyVars>>

NextMonitor == Probe

SpecMonitor == Init /\ [][NextMonitor]_vars

\* -------------------------------------------------- requests in flight together
\* what each of the concurrent invocations was called with: two tags with a
\* generator, so that two requests submit more tasks than one executor runs
ConcurrentFormatLists == { <<"pdf", "docx">> }

\* every invocation has bound its arguments (the state Call leaves) and none
\* has executed a statement yet
InitConcurrent ==
    /\ \E fl \in ConcurrentFormatLists :
          request = [r \in Reqs |->
                        [formats |-> fl, include_tables |-> TRUE, include_charts |-> TRUE]]
    /\ pc = [r \in Reqs |-> "check"]
    /\ include_tables = [r \in Reqs |-> TRUE]
    /\ include_charts = [r \in Reqs |-> TRUE]
    /\ health = [r \in Reqs |-> NoHealth]
    /\ next_fmt = [r \in Reqs |-> 1]
    /\ format_tasks = [r \in Reqs |-> <<>>]
    /\ collect_i = [r \in Reqs |-> 1]
    /\ outputs = [r \in Reqs |-> EmptyMap]
    /\ status_updates = [r \in Reqs |-> <<>>]
    /\ result = [r \in Reqs |-> NoResult]
    /\ saved_files = {}
    /\ renderer_calls = [r \in Reqs |-> 0]
    /\ completed = [r \in Reqs |-> <<>>]
    /\ heap = <<>>
    /\ documents_registry = EmptyMap
    /\ registered_by = EmptyMap
    /\ cpc = [c \in Callers |-> "idle"]
    /\ clocal = [c \in Callers |-> NoLocal]
    /\ cret = [c \in Callers |-> NoReturn]
    /\ nregisters = 0
    /\ nreads = 0
    /\ gets_done = <<>>
    /\ snapshot = NoHealth
    /\ InitLazy
    /\ InitFileManager(1)

\* the invocations run on their own threads, each with the executor it creates
NextConcurrent ==
    \E r \in Reqs :
        \/ Admission(r)
        \/ Assemble(r)
        \/ SubmitTask(r)
        \/ StartTask(r)
        \/ \E i \in 1..MaxFormats : FinishTask(r, i)
        \/ CollectResult(r)
        \/ Register(r)

SpecConcurrent == InitConcurrent /\ [][NextConcurrent]_vars

\* -------------------------------------------------------- the sweep at work
\* request threads tracking and marking files while sweeps run, under either TTL
InitFiles == InitCore /\ \E m \in MaxAges : InitFileManager(m)

NextSweep ==
    \/ \E t \in Workers :
          \/ UploadCopy(t)
          \/ UploadStore(t)
          \/ MarkProcessed(t)
          \/ SweepNow(t)
          \/ SweepCollect(t)
          \/ SweepDelete(t)
          \/ SweepReturn(t)
    \/ Tick

SpecSweep == InitFiles /\ [][NextSweep]_vars

\* -------------------------------------------------- file manager under load
\* request threads using every operation of one FileManager
NextFiles ==
    \/ \E t \in Workers :
          \/ UploadCopy(t)
          \/ UploadStore(t)
          \/ GetPathLock(t)
          \/ GetPathReturn(t)
          \/ MarkProcessed(t)
          \/ DeleteBody(t)
          \/ DeleteRelease(t)
          \/ SweepNow(t)
          \/ SweepCollect(t)
          \/ SweepDelete(t)
          \/ SweepReturn(t)
          \/ CleanupAllLock(t)
          \/ CleanupAllDelete(t)
          \/ CleanupAllReturn(t)
    \/ Tick

SpecFiles == InitFiles /\ [][NextFiles]_vars

\* request threads uploading, marking and driving the scheduler, with the
\* sweeps made by the loop threads it spawns
NextScheduler ==
    \/ \E t \in Workers :
          \/ UploadCopy(t)
          \/ UploadStore(t)
          \/ MarkProcessed(t)
          \/ StartTest(t)
          \/ StartSpawn(t)
          \/ SchedulerStop(t)
    \/ \E l \in LoopThreads :
          \/ LoopTest(l)
          \/ SweepNow(l)
          \/ SweepCollect(l)
          \/ SweepDelete(l)
          \/ SweepReturn(l)
          \/ LoopWake(l)
    \/ Tick

SpecScheduler == InitFiles /\ [][NextScheduler]_vars

\* ---------------------------------------------- first use of the components
\* threads calling the getters concurrently, from a process that has loaded none
NextLazy ==
    \E c \in Callers :
        \/ LazyCall(c)
        \/ LazyCheck(c)
        \/ LazyLock(c)
        \/ LazyStore(c)
        \/ LazyRelease(c)
        \/ LazyReturn(c)
        \/ LazyAccessor(c)
        \/ LazyContinue(c)

SpecLazy == Init /\ [][NextLazy]_vars

\* ------------------------------------------------- fetching what was generated
\* one invocation of the coordinator, and a user fetching the formats of the
\* document it reported
NextRetrieval ==
    \/ \E r \in First :
          \/ Call(r)
          \/ Admission(r)
          \/ Assemble(r)
          \/ SubmitTask(r)
          \/ StartTask(r)
          \/ \E i \in 1..MaxFormats : FinishTask(r, i)
          \/ CollectResult(r)
          \/ Register(r)
    \/ \E c \in Reader :
          \/ GetFileBytes(c)
          \/ Continue(c)

SpecRetrieval == Init /\ [][NextRetrieval]_vars

\* ------------------------------------------------------------------ claims
Tasks(r) == 1..Len(format_tasks[r])
\* the requested tags that have a generator, in request order
Known(fl) == SelectSeq(fl, LAMBDA f : f \in DOMAIN format_generators)
\* the fmt_names whose task of request r returned a path
Rendered(r) ==
    {format_generators[format_tasks[r][i].fmt] :
        i \in {j \in Tasks(r) : format_tasks[r][j].st = "done" /\ ~format_tasks[r][j].raised}}
\* the files written for request r
Written(r) ==
    {format_tasks[r][i].result.path :
        i \in {j \in Tasks(r) : format_tasks[r][j].result.path # None}}
Completed(r) == pc[r] = "returned" /\ result[r].kind = "complete"

\* C1: a request whose health check reports CRITICAL is refused: it returns the
\* refusal at once, no generate_*_file is ever invoked for it, no task is
\* submitted, no document dict is registered for it and no output file is
\* written for it, whatever format list it asked for.
C1_CriticalRefused ==
    \A r \in Reqs :
        health[r].status = "CRITICAL" =>
            /\ pc[r] = "returned"
            /\ result[r].kind = "critical"
            /\ renderer_calls[r] = 0
            /\ format_tasks[r] = <<>>
            /\ Written(r) = {}
            /\ saved_files \subseteq UNION {Written(q) : q \in Reqs \ {r}}
            /\ \A ref \in DOMAIN registered_by : registered_by[ref] # r

C1_Witness ==
    \E r \in Reqs :
        /\ health[r].status = "CRITICAL"
        /\ pc[r] = "returned"
        /\ Len(request[r].formats) = MaxFormats
        /\ \A i \in 1..MaxFormats : request[r].formats[i] \in DOMAIN format_generators

\* C2: failure isolation. A renderer that raises becomes a failed outcome of
\* its own task: the request is never failed by it, every submitted task still
\* runs to completion before the document is registered, and the outcome of
\* each task reports success exactly when that task's own renderer did not raise.
C2_FailureIsolation ==
    \A r \in Reqs :
        /\ result[r].kind = "error" => result[r].cause # "renderer"
        /\ Len(status_updates[r]) <= Len(format_tasks[r])
        /\ \A i \in 1..Len(status_updates[r]) :
              status_updates[r][i].ok = ~format_tasks[r][i].raised
        /\ (pc[r] = "register" \/ Completed(r)) =>
              /\ Len(status_updates[r]) = Len(format_tasks[r])
              /\ \A i \in Tasks(r) : format_tasks[r][i].st = "done"

C2_Witness ==
    \E r \in Reqs :
        /\ Completed(r)
        /\ Len(format_tasks[r]) = MaxFormats
        /\ format_tasks[r][completed[r][1]].raised
        /\ \E i \in Tasks(r) : ~format_tasks[r][i].raised /\ result[r].status_updates[i].ok
        /\ \E i \in Tasks(r) : format_tasks[r][i].raised /\ ~result[r].status_updates[i].ok

C5_OnlySucceededFormats ==
    \A id \in DOMAIN documents_registry :
        LET ref == documents_registry[id] IN
        ref \in DOMAIN registered_by =>
            /\ DOMAIN heap[ref].file_paths = Rendered(registered_by[ref])
            /\ \A n \in DOMAIN heap[ref].file_paths : heap[ref].file_paths[n] \in saved_files

C5_Witness ==
    \E r \in Reqs, id \in DOMAIN documents_registry :
        /\ Completed(r)
        /\ result[r].doc_id = id
        /\ request[r].formats = <<"pdf", "docx", "md">>
        /\ ~format_tasks[r][1].raised /\ format_tasks[r][2].raised /\ ~format_tasks[r][3].raised
        /\ DOMAIN heap[documents_registry[id]].file_paths = {"PDF", "Markdown"}
        /\ ~result[r].status_updates[2].ok

\* C6: a request whose health check reports WARNING is admitted, its
\* include_tables and include_charts are off whatever was requested, and the
\* tasks it submits are those of every requested tag with a generator, the
\* same as for a request that is not degraded.
C6_WarningDegrades ==
    \A r \in Reqs :
        /\ health[r].status = "WARNING" =>
              /\ ~include_tables[r]
              /\ ~include_charts[r]
              /\ pc[r] # "idle" /\ pc[r] # "check"
              /\ result[r].kind # "critical"
        /\ (health[r].status \in {"WARNING", "HEALTHY"} /\ pc[r] \in {"collect", "register"}) =>
              [i \in Tasks(r) |-> format_tasks[r][i].fmt] = Known(request[r].formats)
        /\ Completed(r) =>
              [i \in Tasks(r) |-> format_tasks[r][i].fmt] = Known(request[r].formats)

C6_Witness ==
    \E r \in Reqs :
        /\ health[r].status = "WARNING"
        /\ request[r].include_tables /\ request[r].include_charts
        /\ Completed(r)
        /\ Len(format_tasks[r]) = MaxFormats
        /\ \A i \in Tasks(r) : ~format_tasks[r][i].raised

Refs == 1..Len(heap)
DocFields == {"title", "file_paths", "content_preview", "created_at", "metadata", "access_count"}
IsComplete(doc) == DOMAIN doc = DocFields
AllIdle == \A c \in Callers : cpc[c] \in {"idle", "returned"}

\* C7: no lost update. Once every concurrent get_document_info call has
\* returned, the access_count of each document dict equals the number of calls
\* that incremented it.
C7_NoLostUpdate ==
    AllIdle => \A ref \in Refs : heap[ref].access_count = gets_done[ref]

\* C8: the access_count of a document dict never decreases, in any step of any
\* interleaving of register, get and list calls.
C8_AccessCountMonotonic ==
    [][\A ref \in Refs : heap'[ref].access_count >= heap[ref].access_count]_vars

\* C9: a get never observes a half-built document. Every dict reachable through
\* the registry has all six fields, and every get has returned either None or
\* a dict with all six fields, also when it runs between the two steps of the
\* register call that creates the id.
C9_NoPartialDocument ==
    /\ \A id \in DOMAIN documents_registry :
          /\ documents_registry[id] \in Refs
          /\ IsComplete(heap[documents_registry[id]])
    /\ \A c \in Callers :
          /\ cret[c].kind \in {"nothing", "none", "doc", "id", "all"}
          /\ cret[c].kind = "doc" => IsComplete(heap[cret[c].ref])
          /\ cret[c].kind = "all" => \A id \in DOMAIN cret[c].docs : IsComplete(heap[cret[c].docs[id]])

C9_Witness ==
    \E c1, c2 \in Callers :
        /\ c1 # c2
        /\ cpc[c2] = "reg_store"
        /\ IsComplete(heap[clocal[c2].ref])
        /\ clocal[c2].doc_id \notin DOMAIN documents_registry
        /\ cpc[c1] = "returned"
        /\ cret[c1] = [kind |-> "none", doc_id |-> clocal[c2].doc_id]

\* C10: a get_document_info on an id that is not in the registry returns None
\* as a value, raises nothing, and changes neither the registry nor any
\* document dict nor any access count.
C10_UnknownIdNotFound ==
    [][\A c \in Callers :
          (/\ cpc[c] = "get_check"
           /\ cpc'[c] # "get_check"
           /\ clocal[c].doc_id \notin DOMAIN documents_registry)
          => /\ cpc'[c] = "returned"
             /\ cret'[c] = [kind |-> "none", doc_id |-> clocal[c].doc_id]
             /\ UNCHANGED <<heap, documents_registry, gets_done>>]_vars

C10_Witness ==
    \E c \in Callers :
        /\ cpc[c] = "returned"
        /\ cret[c].kind = "none"
        /\ cret[c].doc_id \notin DOMAIN documents_registry
        /\ documents_registry # EmptyMap

\* the registrations made so far: the dict objects built by a register call
Registered == DOMAIN registered_by
\* the renderer tasks executing now, over all requests
RunningEverywhere == {<<r, i>> \in Reqs \X (1..MaxFormats) : i \in Running(r)}

\* C11: every register call returns an id that no earlier call returned: each
\* document dict a register call stored is still the entry of its id, so the
\* registry holds one entry per register call and no entry was replaced.
C11_FreshIds ==
    /\ \A ref \in Registered : \E id \in DOMAIN documents_registry : documents_registry[id] = ref
    /\ Cardinality(DOMAIN documents_registry) = Cardinality(Registered)

\* C17: the renderer tasks executing at the same time, counted over all the
\* requests in flight, never exceed max_workers.
C17_SharedWorkerLimit == Cardinality(RunningEverywhere) <= max_workers

\* the task the collection loop of request r is waiting for
Awaited(r) == format_tasks[r][collect_i[r]]

\* C18: a request waiting in task.result() for a renderer that never returns is
\* released (by a timeout that fails that format alone): the collection loop
\* can always take its next step, so the request is never blocked for good.
C18_HungRendererTimesOut ==
    \A r \in Reqs :
        (/\ pc[r] = "collect"
         /\ collect_i[r] <= Len(format_tasks[r])
         /\ Awaited(r).st = "hung")
        => ENABLED CollectResult(r)

\* what the health dict of the last query says about its own reading
Tier == snapshot.status
Queried == snapshot # NoHealth

\* C19 as stated: HEALTHY when p < 80, WARNING when 80 <= p <= 90, CRITICAL
\* when p > 90, for every integer reading p in 0..100.
C19_TiersAsStated ==
    Queried =>
        LET p == snapshot.ram_percent IN
        /\ p < 80 => Tier = "HEALTHY"
        /\ (80 <= p /\ p <= 90) => Tier = "WARNING"
        /\ p > 90 => Tier = "CRITICAL"

\* C19 as amended: HEALTHY when p <= 80, WARNING when 80 < p <= 90, CRITICAL
\* when p > 90, for every integer reading p in 0..100: a reading of exactly 80
\* is still HEALTHY and a reading of exactly 90 is still WARNING.
C19_Tiers ==
    Queried =>
        LET p == snapshot.ram_percent IN
        /\ p \in Percents
        /\ p <= 80 => Tier = "HEALTHY"
        /\ (80 < p /\ p <= 90) => Tier = "WARNING"
        /\ p > 90 => Tier = "CRITICAL"

C19_Witness ==
    /\ Queried
    /\ snapshot.ram_percent = 80
    /\ Tier = "HEALTHY"

\* C20: fail open. No request is failed by a memory read that raised: such a
\* request is treated as HEALTHY and goes on to content assembly and rendering.
C20_FailOpen ==
    \A r \in Reqs :
        result[r].kind = "error" => result[r].cause # "memory_read"

\* a sweep that has run both of its loops and still holds the lock
SweepDone(t) ==
    fpc[t] = "sw_delete" /\ flocal[t].i > Len(flocal[t].expired_files)
\* a cleanup_all that has run its loop and still holds the lock
CleanupAllDone(t) ==
    fpc[t] = "ca_delete" /\ flocal[t].i > Len(flocal[t].file_ids)
\* the expiry rule as the claims state it, at the time `now`
Due(info, now) ==
    \/ now > info.upload_time + max_age
    \/ "delete_at" \in DOMAIN info /\ now >= info.delete_at
Entries == {tracked_files[i] : i \in 1..Len(tracked_files)}

\* C12: with a max age of zero, a sweep that has run its loops leaves no file
\* tracked (and so no tracked copy in storage) that was uploaded at or before
\* the sweep's clock reading, the reading equal to the upload time included.
C12_ZeroTtlSwept ==
    \A t \in FileThreads :
        (max_age = 0 /\ SweepDone(t)) =>
            \A e \in Entries : e.upload_time > flocal[t].now

\* C13: while a sweep holds the lock, a tracked file is removed only if the
\* current time exceeds its upload time plus max age or its delete_at deadline
\* has been reached; every other tracked file keeps its entry unchanged and
\* its copy in storage (a file with a TTL of an hour and no deadline survives
\* an immediate sweep).
C13_SweepRemovesOnlyExpired ==
    [][\A t \in FileThreads :
          (lock = {t} /\ fpc[t] = "sw_delete") =>
              \A e \in Entries :
                  \/ Due(e, clock) /\ ~IsTracked(tracked_files', e.file_id)
                  \/ /\ IsTracked(tracked_files', e.file_id)
                     /\ file_info(tracked_files', e.file_id) = e
                     /\ e.file_id \in disk => e.file_id \in disk']_vars

C13_Witness ==
    \E t \in FileThreads :
        /\ SweepDone(t)
        /\ max_age = 1
        /\ flocal[t].cleaned_count = 1
        /\ \E e \in Entries :
              /\ ~Due(e, clock)
              /\ "delete_at" \notin DOMAIN e
              /\ e.file_id \in disk

\* C14: when cleanup_all has run its loop there is no tracked file and no file
\* under the upload directory, whatever the files' TTL and status and whatever
\* uploads run beside it; a second cleanup_all ends in the same state.
C14_CleanupAllLeavesNothing ==
    \A t \in FileThreads :
        CleanupAllDone(t) => (tracked_files = <<>> /\ disk = {})

\* C15: an id handed to a deletion is no longer tracked once that deletion has
\* run (delete_file, the sweep of an expired file, cleanup_all), whether the
\* physical copy was already gone or os.remove raised.
C15_DeletedIdsUntracked ==
    \A t \in FileThreads :
        /\ fpc[t] = "del_release" => ~IsTracked(tracked_files, flocal[t].file_id)
        /\ fpc[t] = "sw_delete" =>
              \A k \in 1..(flocal[t].i - 1) :
                  ~IsTracked(tracked_files, flocal[t].expired_files[k])
        /\ fpc[t] = "ca_delete" =>
              \A k \in 1..(flocal[t].i - 1) :
                  ~IsTracked(tracked_files, flocal[t].file_ids[k])

\* the threads inside cleanup_expired_files
Sweeping == {t \in FileThreads : fpc[t] \in {"sw_lock", "sw_delete"}}
\* the threads inside a `with self.lock:` block that writes tracked_files
InTable == {t \in FileThreads : fpc[t] \in {"mp_delete", "del_release", "sw_delete", "ca_delete"}}

\* C16: at most one sweep is in progress at any time, whatever start() and
\* stop() calls were made, and at most one of sweep, upload and mark_processed
\* is inside its block on the tracked-file table.
C16_OneSweepAtATime ==
    /\ Cardinality(Sweeping) <= 1
    /\ Cardinality(InTable) <= 1
    /\ InTable \subseteq lock

\* C21: a tracked file moves only forward through uploaded, processed and
\* removed: no step takes the record of an id from status processed back to
\* uploaded, and an id that was removed from the table is never tracked again.
C21_ForwardOnly ==
    [][ /\ \A id \in Issued :
              ( /\ IsTracked(tracked_files, id)
                /\ IsTracked(tracked_files', id)
                /\ file_info(tracked_files, id).status = "processed" )
              => file_info(tracked_files', id).status = "processed"
        /\ \A id \in deleted_ids' : ~IsTracked(tracked_files', id) ]_vars

\* the document dicts built by the register call of request r
ArtifactsOf(r) == {ref \in DOMAIN registered_by : registered_by[ref] = r}
\* every task request r submitted has returned and its result was collected
Joined(r) ==
    /\ next_fmt[r] > Len(request[r].formats)
    /\ \A i \in Tasks(r) : format_tasks[r][i].st = "done"
    /\ collect_i[r] > Len(format_tasks[r])

C23_MarkProcessedOutcome ==
    /\ \A id \in Issued, delete_after \in DeleteAfters :
          LET m == mark_processed(tracked_files, id, delete_after, clock) IN
          /\ ~IsTracked(tracked_files, id) =>
                m.returns = "False" /\ m.tracked = tracked_files
          /\ (IsTracked(tracked_files, id) /\ delete_after > 0) =>
                /\ m.returns = "True"
                /\ IsTracked(m.tracked, id)
                /\ file_info(m.tracked, id).status = "processed"
                /\ "delete_at" \in DOMAIN file_info(m.tracked, id)
          /\ (IsTracked(tracked_files, id) /\ delete_after <= 0) =>
                m.returns = "delete_file"
    /\ \A t \in FileThreads : fpc[t] = "mp_delete" => ENABLED DeleteBody(t)

\* what a holder of the value returned by get_all_documents reads in it
Listed(docs, objects) == [id \in DOMAIN docs |-> objects[docs[id]]]

\* C24: the value returned by get_all_documents is a snapshot: as long as a
\* caller holds it, no register_document or get_document_info call made by any
\* thread changes what it contains, the access counts included.
C24_ListIsSnapshot ==
    [][ \A c \in Callers :
            (cret[c].kind = "all" /\ cret'[c] = cret[c]) =>
                Listed(cret[c].docs, heap') = Listed(cret[c].docs, heap) ]_vars

\* the ids the sweep of thread t has gone through so far
Visited(t) == {flocal[t].expired_files[k] : k \in 1..(flocal[t].i - 1)}

\* C25: the count a sweep holds, and returns when its loop is over, is the
\* number of files that sweep has removed from the table: a file the sweep
\* removed counts once, also when it was listed for its age and for its
\* deadline, and a file it could not remove does not count.
C25_SweepCountsRemovals ==
    \A t \in FileThreads :
        fpc[t] = "sw_delete" =>
            flocal[t].cleaned_count =
                Cardinality({id \in Visited(t) : ~IsTracked(tracked_files, id)})

C25_Witness ==
    \E t \in FileThreads :
        /\ fpc[t] = "sw_delete"
        /\ Len(flocal[t].expired_files) = 2
        /\ flocal[t].expired_files[1] = flocal[t].expired_files[2]
        /\ flocal[t].i > Len(flocal[t].expired_files)
        /\ flocal[t].cleaned_count = 1

\* the positions at which a thread waits to acquire self.lock
WaitsForLock(t) == fpc[t] \in {"up_lock", "sw_lock", "mp_delete"}
\* the steps by which the holder of the lock goes on towards releasing it
HolderStep(t) ==
    \/ GetPathReturn(t)
    \/ DeleteRelease(t)
    \/ SweepDelete(t)
    \/ SweepReturn(t)
    \/ CleanupAllDelete(t)
    \/ CleanupAllReturn(t)

\* C26: no FileManager operation blocks forever: the thread that holds the
\* lock is never itself waiting to acquire it, and it can always take a step
\* towards releasing it, so that the calls and sweeps waiting behind it proceed.
C26_NoSelfDeadlock ==
    \A t \in lock :
        /\ ~WaitsForLock(t)
        /\ ENABLED HolderStep(t)

\* C27: a successful upload_file works on an id that is in use by no other
\* file: the copy it writes replaces no copy already in the temp directory,
\* the record it stores replaces no tracked record, and the table grows by
\* exactly one entry, also for two uploads within the same clock second.
C27_UploadIdsFresh ==
    [][ \A t \in Workers :
            /\ (fpc[t] = "idle" /\ fpc'[t] = "up_lock") =>
                  flocal'[t].file_id \notin disk
            /\ (fpc[t] = "up_lock" /\ fpc'[t] = "idle") =>
                  /\ ~IsTracked(tracked_files, flocal[t].file_id)
                  /\ Len(tracked_files') = Len(tracked_files) + 1 ]_vars

\* C28: first use of the lazily built components is safe for every
\* interleaving of callers: no class is constructed twice, every call returns
\* the one object stored under the key it asked for, and get_document_accessor
\* never fails on a missing 'document_accessor' entry.
C28_LazySafe ==
    /\ \A i, j \in 1..Len(built) : built[i] = built[j] => i = j
    /\ \A c \in Callers :
          lret[c].kind # "nothing" =>
              /\ lret[c].kind = "object"
              /\ lret[c].key \in DOMAIN components
              /\ lret[c].obj = components[lret[c].key]

\* C29: retrieval round trip. A get_file_bytes call for a document the
\* coordinator registered, asking for a format that is a key of its file_paths
\* and whose file exists, returns that file's bytes, never None.
C29_RetrievalRoundTrip ==
    \A c \in Callers :
        ( /\ cret[c].kind = "bytes"
          /\ cret[c].doc_id \in DOMAIN documents_registry
          /\ documents_registry[cret[c].doc_id] \in DOMAIN registered_by ) =>
            LET file_paths == heap[documents_registry[cret[c].doc_id]].file_paths IN
            ( /\ cret[c].format_type \in DOMAIN file_paths
              /\ file_paths[cret[c].format_type] \in saved_files ) =>
                cret[c].bytes = <<"bytes", file_paths[cret[c].format_type]>>

\* the _cleanup_loop threads that were started and have not ended
ActiveLoops == {l \in LoopThreads : fpc[l] \notin {"unborn", "exited"}}

\* C30: whatever start() and stop() calls were made, at most one cleanup loop
\* is alive, and a loop that finds the scheduler stopped when its sleep is
\* over makes no further sweep and ends.
C30_SingleCleanupLoop ==
    [][ /\ Cardinality(ActiveLoops') <= 1
        /\ \A l \in LoopThreads :
              (fpc[l] = "loop_test" /\ ~running /\ fpc'[l] # fpc[l]) => fpc'[l] = "exited" ]_vars

====
